---- MODULE Spec2Model ----
(***************************************************************************)
(* Ansible modules dellemc_powerstore_hostgroup and                        *)
(* dellemc_powerstore_snapshot, modelled as state machines over a          *)
(* PowerStore array that is reached through SDK calls.  Every SDK call is  *)
(* one step of a run; a call may raise.  A run can be followed by a second *)
(* run with the same parameters against the array the first run left.      *)
(***************************************************************************)
EXTENDS Integers, Sequences, FiniteSets, TLC

VARIABLES
    module,         \* which module's main() is running
    playbook,       \* the task's arguments, the same in every run
    params,         \* self.module.params of the current run
    pc,             \* position of the run inside perform_module_operation
    run,            \* 1 for the first run, 2 for the repeated run
    status,         \* "running", "ok" (exit_json) or "failed" (fail_json / traceback)
    msg,            \* which failure ended the run
    result,         \* self.result / result as handed to exit_json
    log,            \* SDK calls issued by the current run, in order
    faults,         \* SDK calls made to raise although the array could serve them
    faults0,        \* the value of faults when the current run started
    groups,         \* array: host groups
    hosts,          \* array: hosts
    snaps,          \* array: volume and volume group snapshots
    created,        \* number of objects the array has created (id generator)
    array0,         \* array contents when the current run started
    hostgroup_id,   \* local of PowerStoreHostgroup.perform_module_operation
    hostgroup,      \* local
    changed,        \* local
    host_ids_list,  \* local
    parent_id,      \* volume_id / volume_group_id of PowerStoreSnapshot
    snapshot,       \* local of PowerStoreSnapshot.perform_module_operation
    modif,          \* is_snap_modified and snapshot_modification_details
    now             \* datetime.utcnow(), in seconds

arrayVars == <<groups, hosts, snaps, created>>
hgLocals == <<hostgroup_id, hostgroup, changed, host_ids_list>>
snLocals == <<parent_id, snapshot, modif>>
vars == <<module, playbook, params, pc, run, status, msg, result, log,
          faults, faults0, groups, hosts, snaps, created, array0, hostgroup_id, hostgroup, changed,
          host_ids_list, parent_id, snapshot, modif, now>>

(***************************************************************************)
(* Bounds of the model.                                                    *)
(***************************************************************************)
\* longest hosts list a playbook passes
MaxHosts == 2
\* SDK calls that raise for a reason other than "not found", over both runs
MaxFaults == 1

(***************************************************************************)
(* Values.                                                                 *)
(***************************************************************************)
\* Python None (for the parameters the code only tests for truth, also "")
Null == "<None>"

Range(s) == {s[i] : i \in 1..Len(s)}

\* hosts on the array: two ordinary hosts, a host whose name is 36 characters
\* long, and two hosts that share a name
HostId1 == "01dedad0-375b-4b6d-901d-94a054d60afe"
HostId2 == "0f626dc9-d2c6-416e-85e7-4a650b8c9dd7"
HostId3 == "c17fc987-bf82-480c-af31-9307b89923c3"
HostId4 == "7a1c0e5e-0000-4000-8000-000000000004"
HostId5 == "7a1c0e5e-0000-4000-8000-000000000005"
HostIdGone == "ffffffff-0000-4000-8000-00000000dead"
LongHostName == "host-with-a-name-36-characters-long1"
InitHosts ==
    { [id |-> HostId1, name |-> "host1"],
      [id |-> HostId2, name |-> "host2"],
      [id |-> HostId3, name |-> LongHostName],
      [id |-> HostId4, name |-> "twin"],
      [id |-> HostId5, name |-> "twin"] }

GroupId1 == "50eea718-4beb-4a0b-84f2-9140f99b4437"
GroupId2 == "50eea718-4beb-4a0b-84f2-9140f99b4438"
GroupIdGone == "50eea718-0000-0000-0000-00000000dead"
\* ids the array hands to the objects it creates
NewId(n) == "new-" \o ToString(n)

\* hostgroup = None
NoGroup == [id |-> Null, name |-> Null, hosts |-> {}]
\* hostgroup_details = {}
EmptyDict == [id |-> "{}", name |-> "{}", hosts |-> {}]

\* a timestamp is None, a string that is no timestamp, or a time in seconds;
\* a details dictionary of the array may also lack the key
NoTs == [k |-> "none", t |-> 0]
BadTs == [k |-> "bad", t |-> 0]
NoKeyTs == [k |-> "nokey", t |-> 0]
Ts(t) == [k |-> "ts", t |-> t]

\* one SDK call of the run and whether it returned (ok) or raised
Call(op, id, name, hs, desc, exp, ok) ==
    [op |-> op, id |-> id, name |-> name, hosts |-> hs, desc |-> desc,
     exp |-> exp, ok |-> ok]
HgCall(op, id, name, hs, ok) == Call(op, id, name, hs, Null, NoKeyTs, ok)

HostgroupMutators ==
    {"create_host_group", "add_hosts_to_host_group",
     "remove_hosts_from_host_group", "modify_host_group", "delete_host_group"}
SnapshotMutators ==
    {"create_volume_snapshot", "create_volume_group_snapshot",
     "modify_volume_snapshot", "modify_volume_group_snapshot",
     "delete_volume_snapshot", "delete_volume_group_snapshot"}
Mutators == HostgroupMutators \cup SnapshotMutators

\* the array may fail a call it could serve only while the fault budget lasts
MayRaise(n) == faults + n <= MaxFaults
Count(b) == IF b THEN 1 ELSE 0

\* a failure after which the step is tried again
FailRetries(m) == UNCHANGED <<status, msg, pc>>

Fail(m) == /\ status' = "failed"
           /\ msg' = m
           /\ pc' = "done"
Goto(p) == /\ pc' = p
           /\ UNCHANGED <<status, msg>>

(***************************************************************************)
(* Parameters of the host group module.                                    *)
(***************************************************************************)
HostMenu ==
    { <<>>,
      <<"host1">>, <<HostId2>>, <<"ghost">>, <<"twin">>, <<LongHostName>>,
      <<HostIdGone>>,
      <<"host1", HostId2>>, <<HostId1, "host1">>,
      <<"host1", HostId2, HostId3>> }
HostLists == {l \in HostMenu : Len(l) <= MaxHosts}

HostgroupParams ==
    { [state |-> st, host_state |-> hs, hostgroup_name |-> n,
       hostgroup_id |-> i,
       hosts |-> l, new_name |-> nn, check_mode |-> cm] :
        st \in {"present", "absent"},
        hs \in {Null, "present-in-group", "absent-in-group"},
        n \in {Null, "hg1", "hg2"},
        i \in {Null, GroupId1, GroupIdGone},
        l \in HostLists,
        nn \in {Null, "hg1", "hg2"},
        cm \in BOOLEAN }

GroupConfigs ==
    { {},
      { [id |-> GroupId1, name |-> "hg1", hosts |-> {HostId1}] },
      { [id |-> GroupId1, name |-> "hg1", hosts |-> {HostId1, HostId2}],
        [id |-> GroupId2, name |-> "hg2", hosts |-> {}] },
      { [id |-> GroupId1, name |-> "hg1", hosts |-> {HostId1}],
        [id |-> GroupId2, name |-> "hg1", hosts |-> {HostId2}] } }

(***************************************************************************)
(* The array behind the SDK, host group side.                              *)
(***************************************************************************)
\* provisioning.get_host_group_by_name: the groups of that name
GroupsByName(name) == {g \in groups : g.name = name}
\* provisioning.get_host_group_details: raises when no group has the id
GroupsById(id) == {g \in groups : g.id = id}
HostsById(id) == {h \in hosts : h.id = id}
HostsByName(name) == {h \in hosts : h.name = name}

\* provisioning.create_host_group(name, hosts)
ArrayCreateGroup(name, hs) ==
    groups \cup {[id |-> NewId(created + 1), name |-> name, hosts |-> hs]}
\* provisioning.add_hosts_to_host_group(id, add_list)
ArrayAddHosts(id, hs) ==
    {IF g.id = id THEN [g EXCEPT !.hosts = @ \cup hs] ELSE g : g \in groups}
\* provisioning.remove_hosts_from_host_group(id, remove_list)
ArrayRemoveHosts(id, hs) ==
    {IF g.id = id THEN [g EXCEPT !.hosts = @ \ hs] ELSE g : g \in groups}
\* provisioning.modify_host_group(id, name=new_name)
ArrayRenameGroup(id, name) ==
    {IF g.id = id THEN [g EXCEPT !.name = name] ELSE g : g \in groups}
\* provisioning.delete_host_group(id): the hosts of the group go with it
ArrayDeleteGroup(id) == {g \in groups : g.id # id}
ArrayDeleteGroupHosts(id) ==
    {h \in hosts : \A g \in GroupsById(id) : h.id \notin g.hosts}

(***************************************************************************)
(* PowerStoreHostgroup.                                                    *)
(***************************************************************************)
\* what no step of the host group module changes
hgFrame == <<module, playbook, run, array0, faults0, now, snaps, parent_id,
             snapshot, modif>>

\* a check that lets every pair of parameters pass
BothGivenIgnored(name, id) == FALSE

\* if hostgroup_name and hostgroup_id
BothGiven(name, id) == name # Null /\ id # Null

\* perform_module_operation, the parameter check before the first SDK call
hostgroup_check_params ==
    /\ module = "hostgroup" /\ pc = "start"
    /\ IF BothGiven(params.hostgroup_name, params.hostgroup_id)
       THEN Fail("both hostgroup_id and hostgroup_name are specified")
       ELSE Goto("get_id")
    /\ UNCHANGED <<params, result, log, faults, arrayVars, hgLocals, hgFrame>>

\* hostgroup_id = self.get_hostgroup_id_by_name(hostgroup_name)
get_hostgroup_id_by_name ==
    /\ module = "hostgroup" /\ pc = "get_id"
    /\ IF params.hostgroup_name = Null
       THEN /\ hostgroup_id' = params.hostgroup_id
            /\ Goto("get_hg")
            /\ UNCHANGED <<log, faults>>
       ELSE \E raises \in BOOLEAN :
            LET found == GroupsByName(params.hostgroup_name) IN
            /\ raises => MayRaise(1)
            /\ faults' = faults + Count(raises)
            /\ log' = Append(log, HgCall("get_host_group_by_name", Null,
                                         params.hostgroup_name, {}, ~raises))
            /\ IF raises
               THEN Fail("traceback") /\ UNCHANGED hostgroup_id
               ELSE IF Cardinality(found) > 1
               THEN Fail("Multiple host groups by the same name found")
                    /\ UNCHANGED hostgroup_id
               ELSE /\ hostgroup_id' = IF found = {} THEN Null
                                       ELSE (CHOOSE g \in found : TRUE).id
                    /\ Goto("get_hg")
    /\ UNCHANGED <<params, result, arrayVars, hostgroup, changed,
                   host_ids_list, hgFrame>>

\* get_hostgroup that returns nothing
GetHostgroupDetailsNone(id, raises) == NoGroup

\* self.get_hostgroup(hostgroup_id): the details, or None when the call raises
GetHostgroupDetails(id, raises) ==
    IF raises \/ GroupsById(id) = {} THEN NoGroup
    ELSE CHOOSE g \in GroupsById(id) : TRUE

\* hostgroup = self.get_hostgroup(hostgroup_id) if hostgroup_id else None
get_hostgroup ==
    /\ module = "hostgroup" /\ pc = "get_hg"
    /\ IF hostgroup_id = Null
       THEN /\ hostgroup' = NoGroup
            /\ UNCHANGED <<log, faults>>
       ELSE \E raises \in BOOLEAN :
            /\ raises => MayRaise(1)
            /\ faults' = faults + Count(raises)
            /\ hostgroup' = GetHostgroupDetails(hostgroup_id, raises)
            /\ log' = Append(log, HgCall("get_host_group_details",
                                         hostgroup_id, Null, {},
                                         hostgroup' # NoGroup))
    /\ changed' = FALSE
    /\ host_ids_list' = <<>>
    /\ Goto("host_list")
    /\ UNCHANGED <<params, result, arrayVars, hostgroup_id, hgFrame>>

\* get_host_id_by_name: "multi" for several hosts of the name, Null for none
get_host_id_by_name(host_name) ==
    LET host_info == HostsByName(host_name) IN
    IF host_info = {} THEN Null
    ELSE IF Cardinality(host_info) > 1 THEN "multi"
    ELSE (CHOOSE h \in host_info : TRUE).id

\* a test that takes every entry of 36 characters for a host id
IsHostIdByLength(host, get_host_raises) == Len(host) = 36

\* the test of create_host_list that takes an entry for a host id
IsHostId(host, get_host_raises) ==
    Len(host) = 36 /\ ~get_host_raises /\ HostsById(host) # {}

\* one iteration of the loop of create_host_list
create_host_list ==
    /\ module = "hostgroup" /\ pc = "host_list"
    /\ IF Len(host_ids_list) >= Len(params.hosts)
       THEN /\ Goto("create")
            /\ UNCHANGED <<log, faults, host_ids_list>>
       ELSE \E r1, r2 \in BOOLEAN :
            LET host == params.hosts[Len(host_ids_list) + 1]
                asks_id == Len(host) = 36
                is_id == IsHostId(host, r1)
                c1 == IF asks_id
                      THEN <<HgCall("get_host_details", host, Null, {}, is_id)>>
                      ELSE <<>>
                c2 == IF is_id THEN <<>>
                      ELSE <<HgCall("get_host_by_name", Null, host, {}, ~r2)>>
                id == get_host_id_by_name(host)
            IN
            /\ r1 => asks_id
            /\ r2 => ~is_id
            /\ MayRaise(Count(r1) + Count(r2))
            /\ faults' = faults + Count(r1) + Count(r2)
            /\ log' = log \o c1 \o c2
            /\ IF is_id
               THEN /\ host_ids_list' = Append(host_ids_list, host)
                    /\ Goto("host_list")
               ELSE IF r2
               THEN Fail("Host not found, error") /\ UNCHANGED host_ids_list
               ELSE IF id = "multi"
               THEN Fail("Multiple hosts by the same name found")
                    /\ UNCHANGED host_ids_list
               ELSE IF id = Null
               THEN Fail("Host not found") /\ UNCHANGED host_ids_list
               ELSE /\ host_ids_list' = Append(host_ids_list, id)
                    /\ Goto("host_list")
    /\ UNCHANGED <<params, result, arrayVars, hostgroup_id, hostgroup,
                   changed, hgFrame>>

\* create_hostgroup without its check of host_state
CreateRefusedNoHostState(hs, host_state) ==
    IF Len(hs) = 0 THEN "no hosts or invalid hosts specified" ELSE Null

\* the checks of create_hostgroup that refuse to create a host group
CreateRefused(hs, host_state) ==
    IF Len(hs) = 0 THEN "no hosts or invalid hosts specified"
    ELSE IF host_state # "present-in-group"
    THEN "Empty host group creation not allowed"
    ELSE Null

\* the condition without "and hostgroup_name"
CreateConditionNoName(state, hg, hostgroup_name) ==
    state = "present" /\ hg = NoGroup

\* if state == 'present' and not hostgroup and hostgroup_name
CreateCondition(state, hg, hostgroup_name) ==
    state = "present" /\ hg = NoGroup /\ hostgroup_name # Null

\* changed = self.create_hostgroup(hostgroup_name, host_ids_list)
create_hostgroup ==
    /\ module = "hostgroup" /\ pc = "create"
    /\ IF CreateCondition(params.state, hostgroup, params.hostgroup_name)
       THEN IF CreateRefused(host_ids_list, params.host_state) # Null
            THEN /\ Fail(CreateRefused(host_ids_list, params.host_state))
                 /\ UNCHANGED <<log, faults, groups, created, changed>>
            ELSE \E raises \in BOOLEAN :
                 /\ raises => MayRaise(1)
                 /\ faults' = faults + Count(raises)
                 /\ log' = Append(log, HgCall("create_host_group", Null,
                                   params.hostgroup_name,
                                   Range(host_ids_list), ~raises))
                 /\ IF raises
                    THEN /\ Fail("Create host group failed")
                         /\ UNCHANGED <<groups, created, changed>>
                    ELSE /\ groups' = ArrayCreateGroup(params.hostgroup_name,
                                                       Range(host_ids_list))
                         /\ created' = created + 1
                         /\ changed' = TRUE
                         /\ Goto("created")
       ELSE /\ Goto("add")
            /\ UNCHANGED <<log, faults, groups, created, changed>>
    /\ UNCHANGED <<params, result, hosts, snaps, hostgroup_id, hostgroup,
                   host_ids_list, hgFrame>>

\* if changed: hostgroup_id = self.get_hostgroup_id_by_name(hostgroup_name)
get_created_hostgroup_id ==
    /\ module = "hostgroup" /\ pc = "created"
    /\ \E raises \in BOOLEAN :
       LET found == GroupsByName(params.hostgroup_name) IN
       /\ raises => MayRaise(1)
       /\ faults' = faults + Count(raises)
       /\ log' = Append(log, HgCall("get_host_group_by_name", Null,
                                    params.hostgroup_name, {}, ~raises))
       /\ IF raises
          THEN Fail("traceback") /\ UNCHANGED hostgroup_id
          ELSE IF Cardinality(found) > 1
          THEN Fail("Multiple host groups by the same name found")
               /\ UNCHANGED hostgroup_id
          ELSE /\ hostgroup_id' = IF found = {} THEN Null
                                  ELSE (CHOOSE g \in found : TRUE).id
               /\ Goto("add")
    /\ UNCHANGED <<params, result, arrayVars, hostgroup, changed,
                   host_ids_list, hgFrame>>

\* the operation's return value is dropped
OrChangedDropped(ret, prev) == prev

\* changed = (<the operation's return value> or changed)
OrChanged(ret, prev) == ret \/ prev

\* the operands of the set difference are swapped
get_add_hosts_swapped(existing, requested) ==
    existing \ (existing \cup requested)

\* _get_add_hosts(existing, requested)
get_add_hosts(existing, requested) == (existing \cup requested) \ existing

\* _get_remove_hosts(existing, requested)
get_remove_hosts(existing, requested) == existing \cap requested

\* add_hostgroup_hosts(hostgroup, hosts), under its condition
add_hostgroup_hosts ==
    /\ module = "hostgroup" /\ pc = "add"
    /\ LET requested == Range(host_ids_list)
           add_list == get_add_hosts(hostgroup.hosts, requested)
       IN
       IF /\ params.state = "present" /\ hostgroup # NoGroup
          /\ params.host_state = "present-in-group" /\ Len(host_ids_list) > 0
          /\ ~(requested \subseteq hostgroup.hosts)
          /\ add_list # {}
       THEN \E raises \in BOOLEAN :
            /\ raises => MayRaise(1)
            /\ faults' = faults + Count(raises)
            /\ log' = Append(log, HgCall("add_hosts_to_host_group",
                                         hostgroup.id, Null, add_list,
                                         ~raises))
            /\ IF raises
               THEN Fail("Adding hosts failed") /\ UNCHANGED <<groups, changed>>
               ELSE /\ groups' = ArrayAddHosts(hostgroup.id, add_list)
                    /\ changed' = OrChanged(TRUE, changed)
                    /\ Goto("remove")
       ELSE /\ Goto("remove")
            /\ UNCHANGED <<log, faults, groups, changed>>
    /\ UNCHANGED <<params, result, hosts, snaps, created, hostgroup_id,
                   hostgroup, host_ids_list, hgFrame>>

\* remove_hostgroup_hosts(hostgroup, hosts), under its condition
remove_hostgroup_hosts ==
    /\ module = "hostgroup" /\ pc = "remove"
    /\ LET remove_list == get_remove_hosts(hostgroup.hosts,
                                           Range(host_ids_list))
       IN
       IF /\ params.state = "present" /\ hostgroup # NoGroup
          /\ params.host_state = "absent-in-group" /\ Len(host_ids_list) > 0
          /\ hostgroup.hosts # {}
          /\ remove_list # {}
       THEN \E raises \in BOOLEAN :
            /\ raises => MayRaise(1)
            /\ faults' = faults + Count(raises)
            /\ log' = Append(log, HgCall("remove_hosts_from_host_group",
                                         hostgroup.id, Null, remove_list,
                                         ~raises))
            /\ IF raises
               THEN Fail("Removing hosts failed")
                    /\ UNCHANGED <<groups, changed>>
               ELSE /\ groups' = ArrayRemoveHosts(hostgroup.id, remove_list)
                    /\ changed' = OrChanged(TRUE, changed)
                    /\ Goto("rename")
       ELSE /\ Goto("rename")
            /\ UNCHANGED <<log, faults, groups, changed>>
    /\ UNCHANGED <<params, result, hosts, snaps, created, hostgroup_id,
                   hostgroup, host_ids_list, hgFrame>>

\* if state == 'present' and hostgroup and new_name: rename_hostgroup
rename_hostgroup ==
    /\ module = "hostgroup" /\ pc = "rename"
    /\ IF /\ params.state = "present" /\ hostgroup # NoGroup
          /\ params.new_name # Null
          /\ hostgroup.name # params.new_name
       THEN \E raises \in BOOLEAN :
            /\ raises => MayRaise(1)
            /\ faults' = faults + Count(raises)
            /\ log' = Append(log, HgCall("modify_host_group", hostgroup.id,
                                         params.new_name, {}, ~raises))
            /\ IF raises
               THEN /\ Fail("Renaming of host group failed")
                    /\ UNCHANGED <<groups, changed, params>>
               ELSE /\ groups' = ArrayRenameGroup(hostgroup.id,
                                                  params.new_name)
                    /\ changed' = TRUE
                    /\ params' = [params EXCEPT
                                    !.hostgroup_name = params.new_name]
                    /\ Goto("delete")
       ELSE /\ Goto("delete")
            /\ UNCHANGED <<log, faults, groups, changed, params>>
    /\ UNCHANGED <<result, hosts, snaps, created, hostgroup_id, hostgroup,
                   host_ids_list, hgFrame>>

\* if state == 'absent' and hostgroup: delete_hostgroup
delete_hostgroup ==
    /\ module = "hostgroup" /\ pc = "delete"
    /\ IF params.state = "absent" /\ hostgroup # NoGroup
       THEN \E raises \in BOOLEAN :
            /\ raises => MayRaise(1)
            /\ faults' = faults + Count(raises)
            /\ log' = Append(log, HgCall("delete_host_group", hostgroup.id,
                                         Null, {}, ~raises))
            /\ IF raises
               THEN /\ Fail("Deleting host group failed")
                    /\ UNCHANGED <<groups, hosts, changed>>
               ELSE /\ groups' = ArrayDeleteGroup(hostgroup.id)
                    /\ hosts' = ArrayDeleteGroupHosts(hostgroup.id)
                    /\ changed' = OrChanged(TRUE, changed)
                    /\ Goto("result")
       ELSE /\ Goto("result")
            /\ UNCHANGED <<log, faults, groups, hosts, changed>>
    /\ UNCHANGED <<params, result, snaps, created, hostgroup_id, hostgroup,
                   host_ids_list, hgFrame>>

\* _create_result_dict up to the look-up of the group's id by name; with
\* state absent, or with neither name nor id, exit_json follows at once
create_result_dict ==
    /\ module = "hostgroup" /\ pc = "result"
    /\ IF params.state = "absent"
       THEN /\ result' = [changed |-> changed, details |-> EmptyDict]
            /\ status' = "ok" /\ pc' = "done"
            /\ UNCHANGED <<msg, log, faults, hostgroup_id>>
       ELSE IF params.hostgroup_name # Null
       THEN \E raises \in BOOLEAN :
            LET found == GroupsByName(params.hostgroup_name) IN
            /\ raises => MayRaise(1)
            /\ faults' = faults + Count(raises)
            /\ log' = Append(log, HgCall("get_host_group_by_name", Null,
                                         params.hostgroup_name, {}, ~raises))
            /\ result' = [result EXCEPT !.changed = changed]
            /\ IF raises
               THEN Fail("traceback") /\ UNCHANGED hostgroup_id
               ELSE IF Cardinality(found) > 1
               THEN Fail("Multiple host groups by the same name found")
                    /\ UNCHANGED hostgroup_id
               ELSE /\ hostgroup_id' = IF found = {} THEN Null
                                       ELSE (CHOOSE g \in found : TRUE).id
                    /\ Goto("details")
       ELSE IF params.hostgroup_id # Null
       THEN /\ result' = [result EXCEPT !.changed = changed]
            /\ hostgroup_id' = params.hostgroup_id
            /\ Goto("details")
            /\ UNCHANGED <<log, faults>>
       ELSE /\ result' = [result EXCEPT !.changed = changed]
            /\ status' = "ok" /\ pc' = "done"
            /\ UNCHANGED <<msg, log, faults, hostgroup_id>>
    /\ UNCHANGED <<params, arrayVars, hostgroup, changed, host_ids_list,
                   hgFrame>>

\* self.result['hostgroup_details'] = self.get_hostgroup(...); exit_json
get_hostgroup_details ==
    /\ module = "hostgroup" /\ pc = "details"
    /\ \E raises \in BOOLEAN :
       LET details == GetHostgroupDetails(hostgroup_id, raises) IN
       /\ raises => MayRaise(1) /\ hostgroup_id # Null
       /\ faults' = faults + Count(raises)
       /\ log' = Append(log, HgCall("get_host_group_details", hostgroup_id,
                                    Null, {}, details # NoGroup))
       /\ result' = [result EXCEPT !.details = details]
    /\ status' = "ok" /\ pc' = "done"
    /\ UNCHANGED <<msg, params, arrayVars, hgLocals, hgFrame>>


(***************************************************************************)
(* PowerStoreSnapshot: values, parameters and the array behind the SDK.    *)
(***************************************************************************)
VolId1 == "6b730a66-494a-4aea-88d8-a2f9e0e7b1a1"
VolId2 == "6b730a66-494a-4aea-88d8-a2f9e0e7b1a2"
VgId1 == "3f7a8d6e-0c1b-4b7e-9a57-3a3f1c0e51b1"
\* the name of volume VolId2 has the shape of a UUID
UuidVolName == "11111111-2222-3333-4444-555555555555"
SnapId1 == "a1b2c3d4-0000-4000-8000-000000000001"
SnapId2 == "a1b2c3d4-0000-4000-8000-000000000002"
SnapIdGone == "a1b2c3d4-0000-4000-8000-00000000dead"

Parents ==
    { [id |-> VolId1, name |-> "vol1", kind |-> "volume"],
      [id |-> VolId2, name |-> UuidVolName, kind |-> "volume"],
      [id |-> VgId1, name |-> "vg1", kind |-> "volume_group"] }

\* is_valid_uuid(val): UUID(str(val)) does not raise ValueError
is_valid_uuid(val) == val \in {VolId1, VolId2, VgId1, UuidVolName}

\* snapshot = None, snap_details = ''
NoSnap == [id |-> Null, name |-> Null, parent |-> Null, desc |-> Null,
           exp |-> NoTs, created |-> 0]

Snap(id, parent, exp) ==
    [id |-> id, name |-> "snap1", parent |-> parent, desc |-> "d1",
     exp |-> exp, created |-> 0]
SnapConfigs ==
    { {},
      { Snap(SnapId1, VolId1, Ts(630)), Snap(SnapId2, VgId1, Ts(630)) },
      { Snap(SnapId1, VolId1, NoTs), Snap(SnapId2, VgId1, NoKeyTs) } }

\* desired_retention with retention_unit, or expiration_timestamp, or neither
\* (AnsibleModule enforces mutually_exclusive before the module code runs)
RetentionChoices ==
    { [desired_retention |-> Null, retention_unit |-> Null,
       expiration_timestamp |-> e] :
        e \in {NoTs, BadTs, Ts(479), Ts(480), Ts(659), Ts(779), Ts(780)} }
    \cup
    { [desired_retention |-> r, retention_unit |-> Null,
       expiration_timestamp |-> NoTs] : r \in {"None", "1", "x"} }
    \cup
    { [desired_retention |-> "1", retention_unit |-> "days",
       expiration_timestamp |-> NoTs] }

\* volume or volume_group, snapshot_name or snapshot_id: required_one_of and
\* mutually_exclusive are enforced before the module code runs
ParentChoices ==
    { [volume |-> v, volume_group |-> Null] :
        v \in {"vol1", VolId1, UuidVolName, "ghost"} }
    \cup {[volume |-> Null, volume_group |-> g] : g \in {"vg1", VgId1}}
SnapChoices ==
    { [snapshot_name |-> n, snapshot_id |-> Null] : n \in {"snap1", "snap9"} }
    \cup
    { [snapshot_name |-> Null, snapshot_id |-> i] :
        i \in {SnapId1, SnapIdGone} }

SnapshotParams ==
    { [volume |-> pa.volume, volume_group |-> pa.volume_group,
       snapshot_name |-> sc.snapshot_name, snapshot_id |-> sc.snapshot_id,
       new_snapshot_name |-> nn,
       desired_retention |-> rc.desired_retention,
       retention_unit |-> rc.retention_unit,
       expiration_timestamp |-> rc.expiration_timestamp,
       description |-> d, state |-> st, check_mode |-> cm] :
        pa \in ParentChoices, sc \in SnapChoices,
        nn \in {Null, "snap1", "snap2"}, rc \in RetentionChoices,
        d \in {Null, "d1", "d2"}, st \in {"present", "absent"},
        cm \in BOOLEAN }

Kind(p) == IF p.volume # Null THEN "volume" ELSE "volume_group"
ParentParam(p) == IF p.volume # Null THEN p.volume ELSE p.volume_group

\* the SDK's names of the calls on volume and on volume group snapshots
Op(what, kind) ==
    IF kind = "volume"
    THEN CASE what = "parent" -> "get_volume_details"
           [] what = "parent_by_name" -> "get_volume_by_name"
           [] what = "list" -> "get_volume_snapshots"
           [] what = "details" -> "get_volume_snapshot_details"
           [] what = "create" -> "create_volume_snapshot"
           [] what = "modify" -> "modify_volume_snapshot"
           [] what = "delete" -> "delete_volume_snapshot"
    ELSE CASE what = "parent" -> "get_volume_group_details"
           [] what = "parent_by_name" -> "get_volume_group_by_name"
           [] what = "list" -> "get_volume_group_snapshots"
           [] what = "details" -> "get_volume_group_snapshot_details"
           [] what = "create" -> "create_volume_group_snapshot"
           [] what = "modify" -> "modify_volume_group_snapshot"
           [] what = "delete" -> "delete_volume_group_snapshot"

\* the key of result an operation on that kind of snapshot sets
Flag(what, kind) ==
    what \o (IF kind = "volume" THEN "_vol_snap" ELSE "_vg_snap")

SnCall(op, id, name, desc, exp, ok) == Call(op, id, name, {}, desc, exp, ok)

ParentsById(kind, id) == {p \in Parents : p.kind = kind /\ p.id = id}
ParentsByName(kind, name) == {p \in Parents : p.kind = kind /\ p.name = name}
SnapsById(id) == {s \in snaps : s.id = id}

\* protection.create_volume_snapshot / create_volume_group_snapshot
ArrayCreateSnap(name, description, parent, exp) ==
    snaps \cup {[id |-> NewId(created + 1), name |-> name, parent |-> parent,
                 desc |-> description, exp |-> exp, created |-> now]}
\* protection.modify_volume_snapshot(snapshot_id, name=...) and the like
ArrayRenameSnap(ss, id, name) ==
    {IF s.id = id THEN [s EXCEPT !.name = name] ELSE s : s \in ss}
ArraySetDescription(ss, id, description) ==
    {IF s.id = id THEN [s EXCEPT !.desc = description] ELSE s : s \in ss}
ArraySetExpiration(ss, id, exp) ==
    {IF s.id = id THEN [s EXCEPT !.exp = exp] ELSE s : s \in ss}
\* protection.delete_volume_snapshot / delete_volume_group_snapshot
ArrayDeleteSnap(id) == {s \in snaps : s.id # id}

(***************************************************************************)
(* Timestamps.  A timestamp string YYYY-MM-DDTHH:MM:SSZ is held as its     *)
(* number of seconds; its first 16 characters are its minute.              *)
(***************************************************************************)
\* timestamp[0:16]
Minute(t) == t \div 60
\* int(desired_retention): -1 stands for ValueError
ParseInt(s) == CASE s = "1" -> 1 [] s = "2" -> 2 [] OTHER -> -1
\* timedelta(hours=n) / timedelta(days=n) in seconds
Retention(n, unit) ==
    IF unit = "days" THEN n * 24 * 60 * 60 ELSE n * 60 * 60

\* the expiration timestamp create_vol_snapshot / create_vg_snapshot send
CreateExpiration(desired_retention, retention_unit, expiration_timestamp) ==
    IF desired_retention # Null /\ desired_retention # "None"
    THEN Ts(now + Retention(ParseInt(desired_retention), retention_unit))
    ELSE IF desired_retention = "None" THEN NoTs
    ELSE expiration_timestamp

\* the expiration timestamp check_snapshot_modified compares with
CheckExpiration(created_at, desired_retention, retention_unit, expiration_timestamp) ==
    IF desired_retention # Null /\ desired_retention # "None"
    THEN Ts(Minute(created_at) * 60
            + Retention(ParseInt(desired_retention), retention_unit))
    ELSE IF desired_retention = "None" THEN NoTs
    ELSE expiration_timestamp

Abs(x) == IF x < 0 THEN -x ELSE x

\* We can tolerate a delta of two minutes.
ToleranceMinutes == 2

\* a comparison of the minutes without the tolerance
TimestampModifiedExact(existing, new) ==
    IF existing.k = "ts" /\ new.k = "ts"
    THEN Minute(existing.t) # Minute(new.t)
    ELSE IF existing.k = "nokey" /\ new.k # "none" THEN TRUE
    ELSE IF existing.k # "nokey" /\ new.k = "none" THEN existing.k # "none"
    ELSE IF existing.k = "none" /\ new.k # "none" THEN TRUE
    ELSE FALSE

\* is_timestamp_modified of check_snapshot_modified
TimestampModified(existing, new) ==
    IF existing.k = "ts" /\ new.k = "ts"
    THEN /\ Minute(existing.t) # Minute(new.t)
         /\ Abs(Minute(existing.t) - Minute(new.t)) > ToleranceMinutes
    ELSE IF existing.k = "nokey" /\ new.k # "none" THEN TRUE
    ELSE IF existing.k # "nokey" /\ new.k = "none" THEN existing.k # "none"
    ELSE IF existing.k = "none" /\ new.k # "none" THEN TRUE
    ELSE FALSE

\* a check_snapshot_modified that never returns early
NothingToCheckNever(desired_retention, expiration_timestamp) == FALSE

\* if desired_retention is None and expiration_timestamp is None
NothingToCheck(desired_retention, expiration_timestamp) ==
    desired_retention = Null /\ expiration_timestamp = NoTs

NotModified ==
    [modified |-> FALSE, is_description_modified |-> FALSE,
     new_description_value |-> Null, is_timestamp_modified |-> FALSE,
     new_expiration_timestamp_value |-> NoTs]

\* a check_snapshot_modified that leaves the description out
check_snapshot_modified_timestamp_only(snap_details, description, desired_retention, retention_unit, expiration_timestamp) ==
    LET new == CheckExpiration(snap_details.created, desired_retention,
                               retention_unit, expiration_timestamp)
        ts == TimestampModified(snap_details.exp, new)
    IN [modified |-> ts,
        is_description_modified |-> FALSE,
        new_description_value |-> Null,
        is_timestamp_modified |-> ts,
        new_expiration_timestamp_value |-> IF ts THEN new ELSE NoTs]

\* check_snapshot_modified once the snapshot's details have been read
check_snapshot_modified(snap_details, description, desired_retention, retention_unit, expiration_timestamp) ==
    LET new == CheckExpiration(snap_details.created, desired_retention,
                               retention_unit, expiration_timestamp)
        ts == TimestampModified(snap_details.exp, new)
        ds == description # Null /\ snap_details.desc # description
    IN [modified |-> ts \/ ds,
        is_description_modified |-> ds,
        new_description_value |-> IF ds THEN description ELSE Null,
        is_timestamp_modified |-> ts,
        new_expiration_timestamp_value |-> IF ts THEN new ELSE NoTs]

(***************************************************************************)
(* PowerStoreSnapshot.perform_module_operation.                            *)
(***************************************************************************)
\* what no step of the snapshot module changes
snFrame == <<module, playbook, params, run, array0, faults0, now, groups,
             hosts, hgLocals>>

\* a validate_expiration_timestamp that accepts every string
BadExpirationAccepted(expiration_timestamp) == FALSE

\* validate_expiration_timestamp: strptime raises ValueError
BadExpiration(expiration_timestamp) == expiration_timestamp.k = "bad"
\* validate_desired_retention: int() raises ValueError and it is not 'None'
BadRetention(desired_retention) ==
    ParseInt(desired_retention) < 0 /\ desired_retention # "None"

\* the two format checks that open perform_module_operation
validate_params ==
    /\ module = "snapshot" /\ pc = "start"
    /\ IF /\ params.expiration_timestamp # NoTs
          /\ BadExpiration(params.expiration_timestamp)
       THEN Fail("Incorrect date format")
       ELSE IF /\ params.desired_retention # Null
               /\ BadRetention(params.desired_retention)
       THEN Fail("Please provide a valid integer as the desired retention")
       ELSE Goto("get_parent")
    /\ UNCHANGED <<result, log, faults, arrayVars, snLocals, snFrame>>

\* get_vol_id_from_volume / get_vol_group_id_from_vg
GetParentId(kind) ==
    /\ module = "snapshot" /\ pc = "get_parent" /\ Kind(params) = kind
    /\ \E r1, r2 \in BOOLEAN :
       LET given == ParentParam(params)
           asks_id == is_valid_uuid(given)
           by_id == IF r1 THEN {} ELSE ParentsById(kind, given)
           by_name == ParentsByName(kind, given)
           c1 == IF asks_id
                 THEN <<SnCall(Op("parent", kind), given, Null, Null,
                               NoKeyTs, by_id # {})>>
                 ELSE <<>>
           c2 == IF by_id # {} THEN <<>>
                 ELSE <<SnCall(Op("parent_by_name", kind), Null, given, Null,
                               NoKeyTs, ~r2)>>
       IN
       /\ r1 => asks_id
       /\ r2 => by_id = {}
       /\ MayRaise(Count(r1) + Count(r2))
       /\ faults' = faults + Count(r1) + Count(r2)
       /\ log' = log \o c1 \o c2
       /\ IF by_id # {}
          THEN /\ parent_id' = (CHOOSE p \in by_id : TRUE).id
               /\ Goto("get_snap")
          ELSE IF r2
          THEN Fail("Failed to get by name") /\ UNCHANGED parent_id
          ELSE IF by_name = {}
          THEN Fail("was not found on the array") /\ UNCHANGED parent_id
          ELSE /\ parent_id' = (CHOOSE p \in by_name : TRUE).id
               /\ Goto("get_snap")
    /\ UNCHANGED <<result, arrayVars, snapshot, modif, snFrame>>

get_vol_id_from_volume == GetParentId("volume")
get_vol_group_id_from_vg == GetParentId("volume_group")

\* the snapshots of the list that the loop of get_vol_snapshot /
\* get_vol_group_snapshot can stop at
Matches(parent, snapshot_name, snapshot_id) ==
    {s \in snaps :
        /\ s.parent = parent
        /\ IF snapshot_name # Null THEN s.name = snapshot_name
           ELSE snapshot_id # Null /\ s.id = snapshot_id}

\* get_vol_snapshot / get_vol_group_snapshot: None also when the call raises
GetSnapshot(kind) ==
    /\ module = "snapshot" /\ pc = "get_snap" /\ Kind(params) = kind
    /\ \E raises \in BOOLEAN :
       LET found == Matches(parent_id, params.snapshot_name,
                            params.snapshot_id) IN
       /\ raises => MayRaise(1)
       /\ faults' = faults + Count(raises)
       /\ log' = Append(log, SnCall(Op("list", kind), parent_id, Null, Null,
                                    NoKeyTs, ~raises))
       /\ IF raises \/ found = {}
          THEN snapshot' = NoSnap
          ELSE snapshot' \in found
    /\ Goto("check")
    /\ UNCHANGED <<result, arrayVars, parent_id, modif, snFrame>>

get_vol_snapshot == GetSnapshot("volume")
get_vol_group_snapshot == GetSnapshot("volume_group")

\* if snapshot is not None: check_snapshot_modified(...)
CheckModified(kind) ==
    /\ module = "snapshot" /\ pc = "check" /\ Kind(params) = kind
    /\ IF snapshot = NoSnap
          \/ NothingToCheck(params.desired_retention,
                            params.expiration_timestamp)
       THEN /\ modif' = NotModified
            /\ Goto("create")
            /\ UNCHANGED <<log, faults>>
       ELSE \E raises \in BOOLEAN :
            LET details == SnapsById(snapshot.id) IN
            /\ raises => MayRaise(1)
            /\ faults' = faults + Count(raises)
            /\ log' = Append(log, SnCall(Op("details", kind), snapshot.id,
                                         Null, Null, NoKeyTs,
                                         ~raises /\ details # {}))
            /\ IF raises \/ details = {}
               THEN Fail("Failed to get details") /\ UNCHANGED modif
               ELSE /\ modif' = check_snapshot_modified(
                                    CHOOSE s \in details : TRUE,
                                    params.description,
                                    params.desired_retention,
                                    params.retention_unit,
                                    params.expiration_timestamp)
                    /\ Goto("create")
    /\ UNCHANGED <<result, arrayVars, parent_id, snapshot, snFrame>>

check_vol_snapshot_modified == CheckModified("volume")
check_vg_snapshot_modified == CheckModified("volume_group")

\* the checks without the one of desired_retention and expiration_timestamp
CreateSnapRefusedNoRetention(snapshot_name, desired_retention, expiration_timestamp, new_name) ==
    IF snapshot_name = Null THEN "Please provide a valid snapshot name."
    ELSE IF new_name # Null THEN "Invalid param: new_name"
    ELSE Null

\* the checks of create_vol_snapshot / create_vg_snapshot that refuse
CreateSnapRefused(snapshot_name, desired_retention, expiration_timestamp, new_name) ==
    IF snapshot_name = Null THEN "Please provide a valid snapshot name."
    ELSE IF desired_retention = Null /\ expiration_timestamp = NoTs
    THEN "Please provide desired_retention or expiration_timestamp"
    ELSE IF new_name # Null THEN "Invalid param: new_name"
    ELSE Null

\* the SDK call that ends create_vol_snapshot / create_vg_snapshot
CreateCall(kind, before, raises) ==
    LET exp == CreateExpiration(params.desired_retention,
                                params.retention_unit,
                                params.expiration_timestamp)
    IN
    /\ log' = Append(log \o before,
                     SnCall(Op("create", kind), parent_id,
                            params.snapshot_name, params.description, exp,
                            ~raises))
    /\ IF raises
       THEN /\ Fail("Failed to create snapshot")
            /\ UNCHANGED <<snaps, created, result>>
       ELSE /\ snaps' = ArrayCreateSnap(params.snapshot_name,
                                        params.description, parent_id, exp)
            /\ created' = created + 1
            /\ result' = [result EXCEPT
                   ![Flag("create", kind)] = TRUE,
                   !.snap_details =
                       [id |-> NewId(created + 1),
                        name |-> params.snapshot_name, parent |-> parent_id,
                        desc |-> params.description, exp |-> exp,
                        created |-> now]]
            /\ Goto("rename")

\* create_vol_snapshot: looks the snapshot up once more before it creates
create_vol_snapshot ==
    LET refused == CreateSnapRefused(params.snapshot_name,
                       params.desired_retention, params.expiration_timestamp,
                       params.new_snapshot_name)
    IN
    IF refused # Null
    THEN Fail(refused) /\ UNCHANGED <<log, faults, snaps, created, result>>
    ELSE \E r1, r2 \in BOOLEAN :
         LET found == IF r1 THEN {}
                      ELSE Matches(parent_id, params.snapshot_name, Null)
             c1 == SnCall(Op("list", "volume"), parent_id, Null, Null,
                          NoKeyTs, ~r1)
         IN
         /\ r2 => found = {}
         /\ MayRaise(Count(r1) + Count(r2))
         /\ faults' = faults + Count(r1) + Count(r2)
         /\ IF found # {}
            THEN \* return False, which the caller cannot unpack: TypeError
                 /\ log' = Append(log, c1)
                 /\ Fail("traceback")
                 /\ UNCHANGED <<snaps, created, result>>
            ELSE CreateCall("volume", <<c1>>, r2)

\* create_vg_snapshot
create_vg_snapshot ==
    LET refused == CreateSnapRefused(params.snapshot_name,
                       params.desired_retention, params.expiration_timestamp,
                       params.new_snapshot_name)
    IN
    IF refused # Null
    THEN Fail(refused) /\ UNCHANGED <<log, faults, snaps, created, result>>
    ELSE \E raises \in BOOLEAN :
         /\ raises => MayRaise(1)
         /\ faults' = faults + Count(raises)
         /\ CreateCall("volume_group", <<>>, raises)

\* a delete whose exception is logged and not passed to fail_json
DeleteSnapshotSwallowing(kind) ==
    \E raises \in BOOLEAN :
    /\ raises => MayRaise(1)
    /\ faults' = faults + Count(raises)
    /\ log' = Append(log, SnCall(Op("delete", kind), snapshot.id, Null, Null,
                                 NoKeyTs, ~raises))
    /\ snaps' = IF raises THEN snaps ELSE ArrayDeleteSnap(snapshot.id)
    /\ result' = [result EXCEPT ![Flag("delete", kind)] = ~raises]
    /\ Goto("rename")
    /\ UNCHANGED created

\* delete_vol_snapshot / delete_vol_group_snapshot
DeleteSnapshot(kind) ==
    \E raises \in BOOLEAN :
    /\ raises => MayRaise(1)
    /\ faults' = faults + Count(raises)
    /\ log' = Append(log, SnCall(Op("delete", kind), snapshot.id, Null, Null,
                                 NoKeyTs, ~raises))
    /\ IF raises
       THEN /\ Fail("Failed to delete snapshot")
            /\ UNCHANGED <<snaps, result>>
       ELSE /\ snaps' = ArrayDeleteSnap(snapshot.id)
            /\ result' = [result EXCEPT ![Flag("delete", kind)] = TRUE]
            /\ Goto("rename")
    /\ UNCHANGED created

delete_vol_snapshot == DeleteSnapshot("volume")
delete_vol_group_snapshot == DeleteSnapshot("volume_group")

\* a delete branch that is never taken
DeleteConditionNever(state, snap, snapshot_name, snapshot_id) == FALSE

\* elif state == 'absent' and (snapshot_name or snapshot_id) and volume
\*      and snapshot
DeleteCondition(state, snap, snapshot_name, snapshot_id) ==
    /\ state = "absent" /\ snap # NoSnap
    /\ (snapshot_name # Null \/ snapshot_id # Null)

\* if state == 'present' and volume and not snapshot: create
\* elif the condition above: delete
vol_create_or_delete ==
    /\ module = "snapshot" /\ pc = "create" /\ Kind(params) = "volume"
    /\ IF params.state = "present" /\ snapshot = NoSnap
       THEN create_vol_snapshot
       ELSE IF DeleteCondition(params.state, snapshot, params.snapshot_name,
                               params.snapshot_id)
       THEN delete_vol_snapshot
       ELSE /\ Goto("rename")
            /\ UNCHANGED <<log, faults, snaps, created, result>>
    /\ UNCHANGED <<groups, hosts, snLocals, snFrame>>

\* the same for a volume group
vg_create_or_delete ==
    /\ module = "snapshot" /\ pc = "create" /\ Kind(params) = "volume_group"
    /\ IF params.state = "present" /\ snapshot = NoSnap
       THEN create_vg_snapshot
       ELSE IF DeleteCondition(params.state, snapshot, params.snapshot_name,
                               params.snapshot_id)
       THEN delete_vol_group_snapshot
       ELSE /\ Goto("rename")
            /\ UNCHANGED <<log, faults, snaps, created, result>>
    /\ UNCHANGED <<groups, hosts, snLocals, snFrame>>

\* rename_vol_snapshot / rename_vol_group_snapshot, under their condition
RenameSnapshot(kind) ==
    /\ module = "snapshot" /\ pc = "rename" /\ Kind(params) = kind
    /\ IF params.state = "present" /\ params.new_snapshot_name # Null
       THEN IF snapshot = NoSnap
            THEN /\ Fail("Snapshot not found.")
                 /\ UNCHANGED <<log, faults, snaps, result>>
            ELSE IF snapshot.name = params.new_snapshot_name
            THEN /\ result' = [result EXCEPT ![Flag("modify", kind)] = FALSE]
                 /\ Goto("modify")
                 /\ UNCHANGED <<log, faults, snaps>>
            ELSE \E raises \in BOOLEAN :
                 /\ raises => MayRaise(1)
                 /\ faults' = faults + Count(raises)
                 /\ log' = Append(log, SnCall(Op("modify", kind), snapshot.id,
                                   params.new_snapshot_name, Null, NoKeyTs,
                                   ~raises))
                 /\ IF raises
                    THEN /\ Fail("Failed to rename snapshot")
                         /\ UNCHANGED <<snaps, result>>
                    ELSE /\ snaps' = ArrayRenameSnap(snaps, snapshot.id,
                                         params.new_snapshot_name)
                         /\ result' = [result EXCEPT
                                         ![Flag("modify", kind)] = TRUE]
                         /\ Goto("modify")
       ELSE /\ Goto("modify")
            /\ UNCHANGED <<log, faults, snaps, result>>
    /\ UNCHANGED <<groups, hosts, created, snLocals, snFrame>>

rename_vol_snapshot == RenameSnapshot("volume")
rename_vol_group_snapshot == RenameSnapshot("volume_group")

\* modify_vol_snapshot / modify_vol_group_snapshot, under their condition:
\* the description, then the expiration timestamp, then the details
ModifySnapshot(kind) ==
    /\ module = "snapshot" /\ pc = "modify" /\ Kind(params) = kind
    /\ IF params.state = "present" /\ snapshot # NoSnap /\ modif.modified
       THEN \E r1, r2, r3 \in BOOLEAN :
            LET d == modif.is_description_modified
                t == modif.is_timestamp_modified
                c1 == IF d
                      THEN <<SnCall(Op("modify", kind), snapshot.id, Null,
                                    modif.new_description_value, NoKeyTs,
                                    ~r1)>>
                      ELSE <<>>
                s1 == IF d /\ ~r1
                      THEN ArraySetDescription(snaps, snapshot.id,
                               modif.new_description_value)
                      ELSE snaps
                c2 == IF t /\ ~r1
                      THEN <<SnCall(Op("modify", kind), snapshot.id, Null,
                                    Null,
                                    modif.new_expiration_timestamp_value,
                                    ~r2)>>
                      ELSE <<>>
                s2 == IF t /\ ~r1 /\ ~r2
                      THEN ArraySetExpiration(s1, snapshot.id,
                               modif.new_expiration_timestamp_value)
                      ELSE s1
                details == {s \in s2 : s.id = snapshot.id}
                c3 == IF ~r1 /\ ~r2
                      THEN <<SnCall(Op("details", kind), snapshot.id, Null,
                                    Null, NoKeyTs, ~r3 /\ details # {})>>
                      ELSE <<>>
            IN
            /\ r1 => d
            /\ r2 => t /\ ~r1
            /\ r3 => ~r1 /\ ~r2
            /\ MayRaise(Count(r1) + Count(r2) + Count(r3))
            /\ faults' = faults + Count(r1) + Count(r2) + Count(r3)
            /\ log' = log \o c1 \o c2 \o c3
            /\ snaps' = s2
            /\ IF r1 \/ r2
               THEN Fail("Failed to modify snapshot") /\ UNCHANGED result
               ELSE IF r3 \/ details = {}
               THEN Fail("Failed to get details") /\ UNCHANGED result
               ELSE /\ result' = [result EXCEPT
                                    ![Flag("modify", kind)] = TRUE,
                                    !.snap_details =
                                        CHOOSE s \in details : TRUE]
                    /\ Goto("details")
       ELSE /\ Goto("details")
            /\ UNCHANGED <<log, faults, snaps, result>>
    /\ UNCHANGED <<groups, hosts, created, snLocals, snFrame>>

modify_vol_snapshot == ModifySnapshot("volume")
modify_vol_group_snapshot == ModifySnapshot("volume_group")

\* the modify flags are left out
AnyFlagNoModify(r) ==
    \/ r.create_vol_snap \/ r.delete_vol_snap
    \/ r.create_vg_snap \/ r.delete_vg_snap

\* result['changed'] = True when one of the six flags is set
AnyFlag(r) ==
    \/ r.create_vol_snap \/ r.delete_vol_snap \/ r.modify_vol_snap
    \/ r.create_vg_snap \/ r.delete_vg_snap \/ r.modify_vg_snap

\* the snapshot's details when neither retention nor expiration is given,
\* then result['changed'] and exit_json
ExitSnapshot(kind) ==
    /\ module = "snapshot" /\ pc = "details" /\ Kind(params) = kind
    /\ IF /\ params.state = "present"
          /\ (params.snapshot_name # Null \/ params.snapshot_id # Null)
          /\ params.desired_retention = Null
          /\ params.expiration_timestamp = NoTs
       THEN IF snapshot = NoSnap
            THEN /\ Fail("Snapshot not found")
                 /\ UNCHANGED <<log, faults, result>>
            ELSE \E raises \in BOOLEAN :
                 LET details == SnapsById(snapshot.id) IN
                 /\ raises => MayRaise(1)
                 /\ faults' = faults + Count(raises)
                 /\ log' = Append(log, SnCall(Op("details", kind),
                                   snapshot.id, Null, Null, NoKeyTs,
                                   ~raises /\ details # {}))
                 /\ IF raises \/ details = {}
                    THEN Fail("Failed to get details") /\ UNCHANGED result
                    ELSE /\ result' = [result EXCEPT
                              !.snap_details = CHOOSE s \in details : TRUE,
                              !.changed = AnyFlag(result)]
                         /\ status' = "ok" /\ pc' = "done" /\ UNCHANGED msg
       ELSE /\ result' = [result EXCEPT !.changed = AnyFlag(result)]
            /\ status' = "ok" /\ pc' = "done"
            /\ UNCHANGED <<msg, log, faults>>
    /\ UNCHANGED <<arrayVars, snLocals, snFrame>>

exit_vol_snapshot == ExitSnapshot("volume")
exit_vg_snapshot == ExitSnapshot("volume_group")

SnapshotResult ==
    [changed |-> FALSE, create_vg_snap |-> FALSE, delete_vg_snap |-> FALSE,
     modify_vg_snap |-> FALSE, create_vol_snap |-> FALSE,
     delete_vol_snap |-> FALSE, modify_vol_snap |-> FALSE,
     snap_details |-> NoSnap]

(***************************************************************************)
(* main(): a run, and the same task run again.                             *)
(***************************************************************************)
\* self.result = {"changed": False, "hostgroup_details": {}}
HostgroupResult == [changed |-> FALSE, details |-> EmptyDict]

Array == [groups |-> groups, hosts |-> hosts, snaps |-> snaps]

InitCommon ==
    /\ pc = "start" /\ run = 1 /\ status = "running" /\ msg = Null
    /\ log = <<>> /\ faults = 0 /\ faults0 = 0 /\ created = 0
    /\ array0 = Array
    /\ hostgroup_id = Null /\ hostgroup = NoGroup /\ changed = FALSE
    /\ host_ids_list = <<>>
    /\ parent_id = Null /\ snapshot = NoSnap /\ modif = NotModified

InitHostgroup ==
    /\ module = "hostgroup"
    /\ playbook \in HostgroupParams
    /\ params = playbook
    /\ groups \in GroupConfigs
    /\ hosts = InitHosts
    /\ snaps = {}
    /\ result = HostgroupResult
    /\ now = 0
    /\ InitCommon

\* the playbook runs the task once more after a run that ended well
Rerun ==
    /\ pc = "done" /\ status = "ok" /\ run = 1
    /\ run' = 2
    /\ pc' = "start" /\ status' = "running" /\ msg' = Null
    /\ params' = playbook
    /\ log' = <<>>
    /\ array0' = Array
    /\ faults0' = faults
    /\ result' = IF module = "hostgroup" THEN HostgroupResult
                  ELSE SnapshotResult
    /\ hostgroup_id' = Null /\ hostgroup' = NoGroup /\ changed' = FALSE
    /\ host_ids_list' = <<>>
    /\ parent_id' = Null /\ snapshot' = NoSnap /\ modif' = NotModified
    /\ now' = now + 61
    /\ UNCHANGED <<module, playbook, faults, arrayVars>>

NextHostgroup ==
    \/ hostgroup_check_params
    \/ get_hostgroup_id_by_name
    \/ get_hostgroup
    \/ create_host_list
    \/ create_hostgroup
    \/ get_created_hostgroup_id
    \/ add_hostgroup_hosts
    \/ remove_hostgroup_hosts
    \/ rename_hostgroup
    \/ delete_hostgroup
    \/ create_result_dict
    \/ get_hostgroup_details
    \/ Rerun

SpecHostgroup == InitHostgroup /\ [][NextHostgroup]_vars

InitSnapshot ==
    /\ module = "snapshot"
    /\ playbook \in SnapshotParams
    /\ params = playbook
    /\ groups = {}
    /\ hosts = InitHosts
    /\ snaps \in SnapConfigs
    /\ result = SnapshotResult
    /\ now = 0
    /\ InitCommon

NextSnapshot ==
    \/ validate_params
    \/ get_vol_id_from_volume
    \/ get_vol_group_id_from_vg
    \/ get_vol_snapshot
    \/ get_vol_group_snapshot
    \/ check_vol_snapshot_modified
    \/ check_vg_snapshot_modified
    \/ vol_create_or_delete
    \/ vg_create_or_delete
    \/ rename_vol_snapshot
    \/ rename_vol_group_snapshot
    \/ modify_vol_snapshot
    \/ modify_vol_group_snapshot
    \/ exit_vol_snapshot
    \/ exit_vg_snapshot
    \/ Rerun

SpecSnapshot == InitSnapshot /\ [][NextSnapshot]_vars

Init == InitHostgroup \/ InitSnapshot
Next == NextHostgroup \/ NextSnapshot
Spec == Init /\ [][Next]_vars

(***************************************************************************)
(* Properties.                                                             *)
(***************************************************************************)
Done == pc = "done"
Succeeded == pc = "done" /\ status = "ok"
\* no SDK call of the current run was made to raise by a fault
NoFaultThisRun == faults = faults0
\* the mutating SDK calls the current run has issued, and those that returned
MutatingIssued == {i \in 1..Len(log) : log[i].op \in Mutators}
MutatingReturned == {i \in MutatingIssued : log[i].ok}
Issued(op) == {i \in 1..Len(log) : log[i].op = op}

\* C1: a host group run that ends successfully reports changed = True
\* exactly when a mutating SDK call of the run returned without raising.
C1_HostgroupChangedIffMutated ==
    (module = "hostgroup" /\ Succeeded)
        => (result.changed <=> MutatingReturned # {})

C1_Witness ==
    /\ module = "hostgroup" /\ Succeeded /\ result.changed
    /\ \E i \in MutatingReturned : log[i].op = "remove_hosts_from_host_group"

\* C2: a snapshot run that ends successfully reports changed = True exactly
\* when a mutating SDK call of the run returned without raising.
C2_SnapshotChangedIffMutated ==
    (module = "snapshot" /\ Succeeded)
        => (result.changed <=> MutatingReturned # {})

C2_Witness ==
    /\ module = "snapshot" /\ Succeeded /\ result.changed
    /\ \E i \in MutatingReturned : log[i].op = "modify_volume_group_snapshot"

\* C3 as stated: whichever SDK call raises, the run issues no mutating call
\* after it and ends in failure.
C3_AnyExceptionAborts ==
    \A i \in 1..Len(log) :
        ~log[i].ok =>
            /\ \A j \in MutatingIssued : j <= i
            /\ Done => status = "failed"

\* the look-ups whose exception the code catches and takes for "not found"
SwallowedReads ==
    {"get_host_group_details", "get_host_details", "get_volume_details",
     "get_volume_group_details", "get_volume_snapshots",
     "get_volume_group_snapshots"}

\* C3 as amended: an exception raised by any SDK call other than the six
\* look-ups above ends the run in failure with no SDK call after it.
C3_UncaughtExceptionAborts ==
    \A i \in 1..Len(log) :
        (~log[i].ok /\ log[i].op \notin SwallowedReads)
            => (i = Len(log) /\ Done /\ status = "failed")

C3_Witness ==
    /\ Done /\ status = "failed" /\ Len(log) > 1
    /\ ~log[Len(log)].ok
    /\ log[Len(log)].op = "delete_volume_snapshot"

\* C4: a run in check mode issues no mutating SDK call and leaves the array
\* as it found it.
C4_CheckModeChangesNothing ==
    params.check_mode => (MutatingIssued = {} /\ Array = array0)

\* C5: a host group run that follows a successful run with the same
\* parameters succeeds, reports changed = False and issues no mutating call
\* (no SDK call of either run being made to fail by a fault).
C5_HostgroupIdempotent ==
    (module = "hostgroup" /\ run = 2 /\ Done /\ faults = 0)
        => (status = "ok" /\ ~result.changed /\ MutatingIssued = {})

\* C6: a snapshot run without desired_retention that follows a successful
\* run with the same parameters succeeds, reports changed = False and issues
\* no mutating call (no SDK call of either run being made to fail).
C6_SnapshotIdempotent ==
    (/\ module = "snapshot" /\ run = 2 /\ Done /\ faults = 0
     /\ playbook.desired_retention = Null)
        => (status = "ok" /\ ~result.changed /\ MutatingIssued = {})

\* the host id an entry of the hosts list stands for
HostIdOf(hs, entry) ==
    IF Len(entry) = 36 /\ \E h \in hs : h.id = entry THEN entry
    ELSE (CHOOSE h \in hs : h.name = entry).id
RequestedHosts ==
    {HostIdOf(array0.hosts, playbook.hosts[i]) :
        i \in 1..Len(playbook.hosts)}

C7_Case ==
    /\ module = "hostgroup" /\ Succeeded
    /\ playbook.state = "present" /\ playbook.hostgroup_name # Null
    /\ Len(playbook.hosts) > 0
    /\ playbook.host_state = "present-in-group"
    /\ playbook.new_name = Null

\* C7: after a successful state=present run with hostgroup_name, hosts and
\* host_state=present-in-group (no new_name), a group of that name holds
\* every requested host, and every group still has the members it had.
C7_HostsPresentAfterRun ==
    C7_Case =>
        /\ \E g \in groups :
              /\ g.name = playbook.hostgroup_name
              /\ RequestedHosts \subseteq g.hosts
        /\ \A g0 \in array0.groups :
              \E g \in groups : g.id = g0.id /\ g0.hosts \subseteq g.hosts

C7_Witness ==
    /\ C7_Case
    /\ \E i \in MutatingReturned : log[i].op = "add_hosts_to_host_group"
    /\ \E g0 \in array0.groups :
          g0.name = playbook.hostgroup_name /\ g0.hosts # {}

\* the groups the run's hostgroup_name or hostgroup_id identified at its start
TargetGroups ==
    IF playbook.hostgroup_name # Null
    THEN {g \in array0.groups : g.name = playbook.hostgroup_name}
    ELSE {g \in array0.groups : g.id = playbook.hostgroup_id}

C8_Case ==
    /\ module = "hostgroup" /\ Done /\ NoFaultThisRun
    /\ playbook.state = "absent" /\ playbook.hosts = <<>>
    /\ ~(playbook.hostgroup_name # Null /\ playbook.hostgroup_id # Null)

\* C8: a state=absent run without hosts, no SDK call failing, deletes the one
\* group its name or id identifies with a single delete_host_group call and
\* no other mutating call and returns changed = True; where there is no such
\* group it issues no mutating call and returns changed = False; in both
\* cases hostgroup_details = {}.
C8_AbsentDeletesOnce ==
    C8_Case =>
        IF Cardinality(TargetGroups) = 1
        THEN /\ status = "ok"
             /\ result = [changed |-> TRUE, details |-> EmptyDict]
             /\ Cardinality(MutatingIssued) = 1
             /\ \A i \in MutatingIssued :
                   /\ log[i].op = "delete_host_group"
                   /\ \A g \in TargetGroups : log[i].id = g.id
        ELSE TargetGroups = {} =>
             /\ status = "ok"
             /\ result = [changed |-> FALSE, details |-> EmptyDict]
             /\ MutatingIssued = {}

C8_Witness ==
    /\ C8_Case /\ Cardinality(TargetGroups) = 1
    /\ playbook.hostgroup_id # Null
    /\ Issued("delete_host_group") # {}
    /\ GroupsById(playbook.hostgroup_id) = {}

C9_Case ==
    /\ module = "hostgroup"
    /\ playbook.state = "present" /\ playbook.hostgroup_name # Null
    /\ \A g \in array0.groups : g.name # playbook.hostgroup_name
    /\ \/ playbook.hosts = <<>>
       \/ playbook.host_state # "present-in-group"

\* C9: a state=present run that names a host group which does not exist,
\* with no hosts or with a host_state other than present-in-group, never
\* calls create_host_group and ends in failure.
C9_NoEmptyGroupCreated ==
    C9_Case =>
        /\ Issued("create_host_group") = {}
        /\ Done => status = "failed"

C9_Witness ==
    /\ C9_Case /\ Done /\ playbook.hosts # <<>>
    /\ playbook.hostgroup_id = Null
    /\ msg = "Empty host group creation not allowed"

C10_Case ==
    /\ module = "hostgroup"
    /\ playbook.state = "present"
    /\ playbook.hostgroup_name = Null /\ playbook.hostgroup_id # Null
    /\ \A g \in array0.groups : g.id # playbook.hostgroup_id

\* C10: a state=present run that gives only a hostgroup_id no group has
\* never calls create_host_group and issues no other mutating SDK call.
C10_NoCreateById ==
    C10_Case => MutatingIssued = {}

C10_Witness ==
    /\ C10_Case /\ Succeeded
    /\ playbook.host_state = "present-in-group"
    /\ Len(host_ids_list) > 0
    /\ ~result.changed

C11_Case ==
    /\ module = "hostgroup"
    /\ playbook.hostgroup_name # Null /\ playbook.hostgroup_id # Null

\* C11: a host group run given both hostgroup_name and hostgroup_id issues
\* no SDK call at all (no look-up of a host group or a host, no mutating
\* call) and its first step ends it in failure.
C11_BothGivenFailsFirst ==
    C11_Case =>
        /\ log = <<>>
        /\ pc \in {"start", "done"}
        /\ Done => status = "failed"
        /\ Array = array0

C11_Witness ==
    /\ C11_Case /\ Done /\ status = "failed"
    /\ playbook.state = "present" /\ Len(playbook.hosts) > 0
    /\ msg = "both hostgroup_id and hostgroup_name are specified"

\* what the hosts of the array at the start of the run make of an entry of
\* the hosts list
C12_IsId(entry) ==
    Len(entry) = 36 /\ \E h \in array0.hosts : h.id = entry
C12_Named(entry) == {h \in array0.hosts : h.name = entry}
C12_Resolvable(entry) ==
    C12_IsId(entry) \/ Cardinality(C12_Named(entry)) = 1
C12_IdFor(entry) ==
    IF C12_IsId(entry) THEN entry
    ELSE (CHOOSE h \in C12_Named(entry) : TRUE).id

\* C12: create_host_list maps the entries of hosts, in their order, each to
\* one id: the entry itself when it is 36 characters long and the id of a
\* host, else the id of the one host of that name; the run goes past
\* create_host_list only with an id for every entry, and a run with an
\* entry that is neither (no host or several hosts of the name) fails
\* without a mutating call.
C12_HostListResolved ==
    module = "hostgroup" =>
        /\ Len(host_ids_list) <= Len(params.hosts)
        /\ \A i \in 1..Len(host_ids_list) :
              /\ C12_Resolvable(params.hosts[i])
              /\ host_ids_list[i] = C12_IdFor(params.hosts[i])
        /\ pc \in {"create", "created", "add", "remove", "rename", "delete",
                   "result", "details"}
              => Len(host_ids_list) = Len(params.hosts)
        /\ (\E i \in 1..Len(params.hosts) : ~C12_Resolvable(params.hosts[i]))
              => /\ MutatingIssued = {}
                 /\ Done => status = "failed"

C12_Witness ==
    /\ module = "hostgroup" /\ pc = "create"
    /\ params.hosts = <<"host1", HostId2>>
    /\ host_ids_list = <<HostId1, HostId2>>

\* the volume or volume group the run's parameter names, by id or else by name
GivenParents ==
    LET given == ParentParam(playbook)
        by_id == {p \in Parents : p.kind = Kind(playbook) /\ p.id = given}
    IN IF by_id # {} THEN by_id
       ELSE {p \in Parents : p.kind = Kind(playbook) /\ p.name = given}
\* the snapshots of it that snapshot_name or snapshot_id identified when the
\* run started
TargetSnaps ==
    {s \in array0.snaps :
        /\ \E p \in GivenParents : s.parent = p.id
        /\ IF playbook.snapshot_name # Null
           THEN s.name = playbook.snapshot_name
           ELSE s.id = playbook.snapshot_id}
CreateOps == {"create_volume_snapshot", "create_volume_group_snapshot"}
ModifyOps == {"modify_volume_snapshot", "modify_volume_group_snapshot"}
DeleteOps == {"delete_volume_snapshot", "delete_volume_group_snapshot"}
DetailsOps ==
    {"get_volume_snapshot_details", "get_volume_group_snapshot_details"}

C13_Case ==
    /\ module = "snapshot" /\ playbook.state = "present"
    /\ playbook.desired_retention = Null
    /\ playbook.expiration_timestamp = NoTs
    /\ TargetSnaps = {}

\* C13: a state=present run for a snapshot that does not exist on the given
\* volume or volume group, with neither desired_retention nor
\* expiration_timestamp, issues no create call (nor any other mutating call)
\* and ends in failure.
C13_CreateNeedsRetention ==
    C13_Case =>
        /\ \A i \in 1..Len(log) : log[i].op \notin CreateOps
        /\ MutatingIssued = {}
        /\ Done => status = "failed"

C13_Witness ==
    /\ C13_Case /\ Done /\ status = "failed"
    /\ playbook.snapshot_name # Null /\ playbook.new_snapshot_name = Null
    /\ msg = "Please provide desired_retention or expiration_timestamp"

C14_Case ==
    /\ module = "snapshot" /\ playbook.state = "present"
    /\ playbook.desired_retention = Null
    /\ playbook.expiration_timestamp = NoTs
    /\ TargetSnaps # {}

\* C14: a state=present run on an existing snapshot with neither
\* desired_retention nor expiration_timestamp does not check for
\* modification (it reads the snapshot's details once, at its end), issues
\* no modify call that sets a description or an expiration timestamp, and
\* when it ends successfully snap_details is that snapshot as the array
\* holds it then.
C14_NoRetentionNoModify ==
    C14_Case =>
        /\ modif = NotModified
        /\ \A i \in 1..Len(log) :
              /\ log[i].op \in ModifyOps
                    => (log[i].desc = Null /\ log[i].exp = NoKeyTs)
              /\ log[i].op \in DetailsOps => (i = Len(log) /\ Done)
        /\ (Done /\ NoFaultThisRun) => status = "ok"
        /\ Succeeded =>
              /\ result.snap_details \in snaps
              /\ \E s \in TargetSnaps : result.snap_details.id = s.id

C14_Witness ==
    /\ C14_Case /\ Succeeded
    /\ playbook.description = "d2" /\ playbook.new_snapshot_name = "snap2"
    /\ result.snap_details.desc = "d1"
    /\ result.snap_details.name = "snap2"

C15_Case ==
    /\ module = "snapshot" /\ Succeeded /\ NoFaultThisRun
    /\ playbook.state = "present" /\ playbook.description # Null
    /\ Cardinality(TargetSnaps) = 1
C15_Converged ==
    \A s \in TargetSnaps :
        \E c \in snaps : c.id = s.id /\ c.desc = playbook.description

C16_Absent == module = "snapshot" /\ playbook.state = "absent"
\* the run passed the format checks, found the volume or volume group, and
\* no SDK call of it raised
C16_Case ==
    /\ C16_Absent /\ Done /\ NoFaultThisRun
    /\ ~BadExpiration(playbook.expiration_timestamp)
    /\ playbook.desired_retention # Null
          => ~BadRetention(playbook.desired_retention)
    /\ GivenParents # {}

\* C16: a state=absent run never issues a create, rename or modify call,
\* whatever its other parameters; where the snapshot its snapshot_name or
\* snapshot_id identifies exists on the given volume or volume group it
\* issues exactly one delete call, with that snapshot's id, and returns
\* changed = True; where it does not exist it issues no mutating call and
\* returns changed = False.
C16_AbsentDeletesSnapshot ==
    /\ C16_Absent => \A i \in MutatingIssued : log[i].op \in DeleteOps
    /\ C16_Case =>
          IF Cardinality(TargetSnaps) = 1
          THEN /\ status = "ok" /\ result.changed
               /\ Cardinality(MutatingIssued) = 1
               /\ \A i \in MutatingIssued : \A s \in TargetSnaps :
                     /\ log[i].id = s.id
                     /\ s \notin snaps
          ELSE TargetSnaps = {} =>
               /\ status = "ok" /\ ~result.changed
               /\ MutatingIssued = {}
               /\ snaps = array0.snaps

C16_Witness ==
    /\ C16_Case /\ Cardinality(TargetSnaps) = 1
    /\ playbook.snapshot_id # Null
    /\ playbook.new_snapshot_name # Null /\ playbook.description = "d2"
    /\ playbook.expiration_timestamp = Ts(780)
    /\ result.changed /\ MutatingReturned # {}

C17_Case ==
    /\ module = "snapshot"
    /\ \/ playbook.expiration_timestamp.k = "bad"
       \/ /\ playbook.desired_retention \notin {Null, "None"}
          /\ ParseInt(playbook.desired_retention) < 0

\* C17: a snapshot run whose expiration_timestamp is not a timestamp of the
\* form YYYY-MM-DDTHH:MM:SSZ, or whose desired_retention is neither an
\* integer nor 'None', issues no SDK call, read or write, and its first step
\* ends it in failure.
C17_FormatChecksFirst ==
    C17_Case =>
        /\ log = <<>>
        /\ pc \in {"start", "done"}
        /\ Done => status = "failed"
        /\ Array = array0

C17_Witness ==
    /\ C17_Case /\ Done /\ status = "failed"
    /\ playbook.expiration_timestamp = BadTs
    /\ playbook.state = "present" /\ playbook.snapshot_name = "snap1"
    /\ msg = "Incorrect date format"

\* the arguments of an SDK call of the log
Arguments(c) == [c EXCEPT !.ok = TRUE]
\* a description update that returned, followed by an expiration update
\* that raised
C18_PartialModify(i) ==
    /\ i + 1 <= Len(log)
    /\ log[i].op \in ModifyOps /\ log[i].desc # Null /\ log[i].ok
    /\ log[i + 1].op \in ModifyOps /\ log[i + 1].exp # NoKeyTs
    /\ ~log[i + 1].ok

\* C18: within a run no mutating SDK call is issued twice with the same
\* arguments; a mutating SDK call that raises is the last SDK call of the
\* run, which ends in failure; and after a description update that returned
\* and an expiration update that raised, the snapshot on the array has the
\* new description and the expiration timestamp it had.
C18_NoRetryNoCompensation ==
    /\ \A i, j \in MutatingIssued :
          i # j => Arguments(log[i]) # Arguments(log[j])
    /\ \A i \in MutatingIssued :
          ~log[i].ok => (i = Len(log) /\ Done /\ status = "failed")
    /\ \A i \in 1..Len(log) :
          C18_PartialModify(i) =>
              \E s \in snaps : \E s0 \in array0.snaps :
                  /\ s.id = log[i].id /\ s0.id = s.id
                  /\ s.desc = log[i].desc /\ s0.desc # s.desc
                  /\ s.exp = s0.exp

C18_Witness ==
    /\ module = "snapshot" /\ Done /\ status = "failed"
    /\ \E i \in 1..Len(log) : C18_PartialModify(i)
    /\ Cardinality(MutatingIssued) = 2

\* the expiration timestamp a run asks for, for a snapshot created at
\* created_at: the parameter, or the minute of creation plus the retention
C19_Requested(created_at) ==
    IF playbook.desired_retention = Null THEN playbook.expiration_timestamp
    ELSE IF playbook.desired_retention = "None" THEN NoTs
    ELSE Ts((created_at \div 60) * 60
            + (IF playbook.retention_unit = "days" THEN 86400 ELSE 3600)
              * ParseInt(playbook.desired_retention))
C19_MinutesApart(a, b) ==
    IF a.t \div 60 >= b.t \div 60 THEN a.t \div 60 - b.t \div 60
    ELSE b.t \div 60 - a.t \div 60

\* C19: when the snapshot on the array has an expiration timestamp and the
\* run asks for one, check_snapshot_modified reports the timestamp as
\* modified exactly when the two, each cut to its minute, are more than 2
\* minutes apart, and then hands on the requested timestamp in full; an
\* expiration update the run issues carries that full timestamp.
C19_ToleranceTwoMinutes ==
    module = "snapshot" =>
        /\ (pc = "create" /\ snapshot # NoSnap) =>
              \A s \in snaps :
                  LET req == C19_Requested(s.created) IN
                  (s.id = snapshot.id /\ s.exp.k = "ts" /\ req.k = "ts") =>
                      /\ modif.is_timestamp_modified
                            <=> C19_MinutesApart(s.exp, req) > 2
                      /\ modif.is_timestamp_modified =>
                            modif.new_expiration_timestamp_value = req
        /\ \A i \in 1..Len(log) : \A s \in array0.snaps :
              LET req == C19_Requested(s.created) IN
              (/\ log[i].op \in ModifyOps /\ log[i].exp # NoKeyTs
               /\ s.id = log[i].id /\ s.exp.k = "ts" /\ req.k = "ts") =>
                  /\ log[i].exp = req
                  /\ C19_MinutesApart(s.exp, req) > 2

C19_Witness ==
    /\ module = "snapshot" /\ Succeeded
    /\ playbook.expiration_timestamp = Ts(479)
    /\ \E i \in MutatingReturned : \E s \in array0.snaps :
          /\ s.id = log[i].id /\ s.exp = Ts(630)
          /\ log[i].exp = Ts(479)
          /\ C19_MinutesApart(s.exp, log[i].exp) = 3
\* the requested timestamp is 2 minutes from the snapshot's: not modified
C19_WitnessWithinTolerance ==
    /\ module = "snapshot" /\ pc = "create" /\ snapshot # NoSnap
    /\ snapshot.exp = Ts(630) /\ playbook.expiration_timestamp = Ts(779)
    /\ ~modif.is_timestamp_modified
    /\ log[Len(log)].op \in DetailsOps /\ log[Len(log)].ok

====
